---- MODULE Spec2Model ----
(***************************************************************************)
(* Model of artisan_common.events.NATSClient: one client object (its _nc   *)
(* and _js handles), the transport connections it opens, the JetStream     *)
(* broker behind them (stream list, message log, durable consumers and     *)
(* their per-message delivery state) and the subscription loops started by *)
(* subscribe().  Every action is one run of client code between two        *)
(* suspension points of the asyncio scheduler.  Spec interleaves every     *)
(* operation; SpecLife keeps the connection lifecycle and publish(),       *)
(* SpecSub the subscription loops of a client that connects once, FairSub  *)
(* one such loop under a fair broker, and SpecRe the loops of a client     *)
(* that reconnects after close().  SpecName applies the durable-name       *)
(* derivation of subscribe() to every subject string, and SpecCodec takes  *)
(* the envelope of a publish() call through json.dumps and json.loads.     *)
(*                                                                         *)
(* Transport and broker behaviour the client relies on (nats-py):          *)
(*  - a connection is open, then draining (drain() in progress: no new     *)
(*    deliveries, publishes still pass), then closed (every call raises);  *)
(*  - drain() is bounded by the transport's drain timeout, so it ends      *)
(*    whether or not a handler of a delivered message is still running;    *)
(*  - drain() on a closed connection raises, on a draining one returns;    *)
(*  - add_stream with an unchanged configuration succeeds and changes      *)
(*    nothing;                                                             *)
(*  - a durable consumer redelivers a message that was nak'ed and never    *)
(*    one that was acked; redelivery on ack-wait expiry is not modelled;   *)
(*  - a durable consumer is bound to one subscription at a time and is     *)
(*    free again once that subscription's connection drains or closes;     *)
(*  - the transport does not examine the subject of a publish, and the     *)
(*    broker stores a message whose subject a stream subject matches;      *)
(*  - json.dumps writes a tuple and a list as an array, json.loads reads   *)
(*    an array as a list.                                                  *)
(***************************************************************************)
EXTENDS Integers, Sequences, FiniteSets, TLC

\* Bounds of the model
MaxConns == 2
MaxPublished == 2
MaxInjected == 1
NumLoops == 2
MaxLen == 5
MaxKeys == 2

Conns == 1..MaxConns
MaxStore == IF MaxPublished > MaxInjected THEN MaxPublished ELSE MaxInjected
Msgs == 1..MaxStore
Loops == 1..NumLoops

\* Subjects and durable names are strings, written as sequences of characters.
SubjCreated == <<"a", ".", "c">>
SubjAll == <<"a", ".", ">">>
SubjEmpty == << >>
SubPatterns == {SubjCreated, SubjAll}

\* The subject arguments of the publish() calls, and the subjects other
\* producers publish on.
PubSubjects == {SubjCreated, SubjAll, SubjEmpty}
InjectSubjects == {SubjCreated}
ExplicitDurables == {<<"w">>}

\* The (subject, durable_name) arguments of the subscribe() calls: durable_name
\* is {} for None, {name} for a given name.
SubscribeArgs == {<<SubjCreated, {}>>, <<SubjAll, {}>>, <<SubjCreated, {<<"w">>}>>}

\* The constructor's stream_name and the subjects connect() passes to add_stream.
StreamName == "ARTISAN"
StreamSubjects == {<<"a", ".", ">">>, <<"o", ".", ">">>, <<"n", ".", ">">>}
StreamConfig == [name |-> StreamName, subjects |-> StreamSubjects]

\* What the bytes of a message body can be: a JSON object; text that json.loads
\* rejects (a JSON value that is no object takes the same branch, at
\* envelope.get); bytes that are not UTF-8.
BodyKinds == {"object", "nonjson", "badutf8"}

RECURSIVE Replace(_, _, _)
\* str.replace(old, new) for a one-character old
Replace(s, old, new) ==
    IF s = << >> THEN << >>
    ELSE (IF Head(s) = old THEN new ELSE <<Head(s)>>) \o Replace(Tail(s), old, new)

\* A derivation that replaces the dots only.
DurableNameDots(subject, dn) ==
    IF dn = {} THEN Replace(subject, ".", <<"-">>)
    ELSE CHOOSE d \in dn : TRUE

\* The durable name subscribe() uses: dn is {} for None, {name} for a given name.
DurableName(subject, dn) ==
    IF dn = {} THEN Replace(Replace(subject, ".", <<"-">>), ">", <<"a", "l", "l">>)
    ELSE CHOOSE d \in dn : TRUE

\* The characters of subjects, and the subject strings up to MaxLen characters.
SubjectChars == {"a", "c", ".", ">", "-"}
Subjects == UNION {[1..n -> SubjectChars] : n \in 0..MaxLen}

\* A subject pattern: tokens that are not empty, separated by dots, with the
\* wildcard ">" only as the whole last token.
IsPattern(s) ==
    /\ Len(s) >= 1
    /\ s[1] # "."
    /\ s[Len(s)] # "."
    /\ \A i \in 1..(Len(s) - 1) : ~(s[i] = "." /\ s[i + 1] = ".")
    /\ \A i \in 1..Len(s) :
         s[i] = ">" => i = Len(s) /\ (i = 1 \/ s[i - 1] = ".")

AllDurables == {DurableName(s, {}) : s \in SubPatterns} \cup ExplicitDurables

\* Broker-side subject matching: equal, or a trailing ">" after an equal prefix.
Matches(pattern, subject) ==
    \/ pattern = subject
    \/ /\ Len(pattern) >= 1
       /\ pattern[Len(pattern)] = ">"
       /\ Len(subject) >= Len(pattern)
       /\ SubSeq(subject, 1, Len(pattern) - 1) = SubSeq(pattern, 1, Len(pattern) - 1)

\* Python values of a payload, written [t |-> type, v |-> content]: a str, an
\* int, a list and a tuple of ints; a dict has its mapping as content.
PyValues ==
    {[t |-> "str", v |-> <<"x">>], [t |-> "int", v |-> <<"1">>],
     [t |-> "list", v |-> <<"1", "2">>], [t |-> "tuple", v |-> <<"1", "2">>]}

\* The keys of payloads: those of the envelope and one other.
PayloadKeys == {"event_id", "subject", "timestamp", "data", "k"}

\* The payloads (the data argument of publish): the mappings of up to MaxKeys
\* keys to values.
Payloads ==
    UNION {[K -> PyValues] : K \in {J \in SUBSET PayloadKeys : Cardinality(J) <= MaxKeys}}

Dict(mapping) == [t |-> "dict", v |-> mapping]
Str(chars) == [t |-> "str", v |-> chars]

\* The envelope dict publish() builds; the generated event_id and timestamp
\* are fixed strings.
EnvelopeDict(subject, data) ==
    Dict([event_id |-> Str(<<"u">>), subject |-> Str(subject),
          timestamp |-> Str(<<"t">>), data |-> Dict(data)])

RECURSIVE Dumps(_)
\* json.dumps: the JSON value of a Python value.  A dict gives an object, a
\* list and a tuple both give an array.
Dumps(x) ==
    CASE x.t = "dict" -> [t |-> "object", v |-> [k \in DOMAIN x.v |-> Dumps(x.v[k])]]
      [] x.t = "str" -> [t |-> "string", v |-> x.v]
      [] x.t = "int" -> [t |-> "number", v |-> x.v]
      [] x.t \in {"list", "tuple"} -> [t |-> "array", v |-> x.v]

RECURSIVE LoadsText(_)
\* A decoder that reads every number as a string.
LoadsText(j) ==
    CASE j.t = "object" -> [t |-> "dict", v |-> [k \in DOMAIN j.v |-> LoadsText(j.v[k])]]
      [] j.t = "array" -> [t |-> "list", v |-> j.v]
      [] OTHER -> [t |-> "str", v |-> j.v]

RECURSIVE Loads(_)
\* json.loads: the Python value of a JSON value.  An array gives a list.
Loads(j) ==
    CASE j.t = "object" -> [t |-> "dict", v |-> [k \in DOMAIN j.v |-> Loads(j.v[k])]]
      [] j.t = "string" -> [t |-> "str", v |-> j.v]
      [] j.t = "number" -> [t |-> "int", v |-> j.v]
      [] j.t = "array" -> [t |-> "list", v |-> j.v]

\* envelope.get("data", {}): the argument of the handler.
HandlerArg(envelope) ==
    IF "data" \in DOMAIN envelope.v THEN envelope.v["data"] ELSE Dict(<< >>)

VARIABLES
    nc,         \* self._nc: 0 for None, else the connection it refers to
    js,         \* self._js: 0 for None, else the connection its context is bound to
    conns,      \* transport connections: "unused", "open", "draining", "closed"
    cpc,        \* the connect() call in progress: "idle" or "adding" (awaiting add_stream)
    okSet,      \* the connections whose connect() call returned normally
    streams,    \* the broker's streams
    store,      \* the stream's message log; a message's sequence number is its index
    consumers,  \* durable name -> the set holding its filter subject ({} when unregistered)
    bs,         \* durable name -> message -> "new", "delivered", "redelivered",
                \*   "acked", "naked"
    pc,         \* subscription loop -> "idle", "wait", "handling", "crashed"
    cur,        \* subscription loop -> the message its handler is running on (0 for none)
    ldur,       \* subscription loop -> its durable name
    lconn,      \* subscription loop -> the connection of its subscription
    out         \* what the latest step did: the call, its result, the loop and message

vars == <<nc, js, conns, cpc, okSet, streams, store, consumers, bs,
          pc, cur, ldur, lconn, out>>

NoDurable == << >>

\* The record of a step: val is << >>, or for a publish() that returned
\* <<return value, seq and stream of the log record, broker acknowledgment>>.
Out(call, result, l, m, val) ==
    [call |-> call, result |-> result, loop |-> l, msg |-> m, val |-> val]

Quiet == Out("none", "none", 0, 0, << >>)

Init ==
    /\ nc = 0
    /\ js = 0
    /\ conns = [c \in Conns |-> "unused"]
    /\ cpc = "idle"
    /\ okSet = {}
    /\ streams = {}
    /\ store = << >>
    /\ consumers = [d \in AllDurables |-> {}]
    /\ bs = [d \in AllDurables |-> [m \in Msgs |-> "new"]]
    /\ pc = [l \in Loops |-> "idle"]
    /\ cur = [l \in Loops |-> 0]
    /\ ldur = [l \in Loops |-> NoDurable]
    /\ lconn = [l \in Loops |-> 0]
    /\ out = Quiet

\* The status of the transport behind a handle (0 is None).
HandleStatus(h) == IF h = 0 THEN "none" ELSE conns[h]

\* The connection state of the data model: Connected once a connect() has
\* returned on the current handle and until close() is invoked.
ConnState ==
    IF cpc = "adding" THEN "Connecting"
    ELSE IF nc # 0 /\ conns[nc] = "draining" THEN "Draining"
    ELSE IF js # 0 /\ conns[js] = "open" /\ js \in okSet THEN "Connected"
    ELSE "Disconnected"

\* The transport connections that are not released.
OpenConns == {c \in Conns : conns[c] \in {"open", "draining"}}

\* ---------------------------------------------------------------- connect()

\* The connection a new nats.connect() call opens.
NextConn == CHOOSE c \in Conns : conns[c] = "unused" /\ \A b \in Conns : conns[b] = "unused" => c <= b

\* add_stream on the broker: create the stream, or update the one of that name.
AddStream(cfg) == {s \in streams : s.name # cfg.name} \cup {cfg}

\* connect(), first part: nats.connect() and self._nc.jetstream(), up to the
\* await of add_stream.  A failed handshake raises and assigns nothing.
ConnectOpen ==
    /\ cpc = "idle"
    /\ \E c \in Conns : conns[c] = "unused"
    /\ \E ok \in BOOLEAN :
         IF ok
         THEN /\ conns' = [conns EXCEPT ![NextConn] = "open"]
              /\ nc' = NextConn
              /\ js' = NextConn
              /\ cpc' = "adding"
              /\ out' = Quiet
         ELSE /\ out' = Out("connect", "raised", 0, 0, << >>)
              /\ UNCHANGED <<conns, nc, js, cpc>>
    /\ UNCHANGED <<okSet, streams, store, consumers, bs, pc, cur, ldur, lconn>>

\* connect(), second part: add_stream answers (or raises) and connect() returns.
ConnectAddStream ==
    /\ cpc = "adding"
    /\ cpc' = "idle"
    /\ \E ok \in BOOLEAN :
         IF ok /\ conns[js] # "closed"
         THEN /\ streams' = AddStream(StreamConfig)
              /\ okSet' = okSet \cup {js}
              /\ out' = Out("connect", "returned", 0, 0, << >>)
         ELSE /\ out' = Out("connect", "raised", 0, 0, << >>)
              /\ UNCHANGED <<streams, okSet>>
    /\ UNCHANGED <<nc, js, conns, store, consumers, bs, pc, cur, ldur, lconn>>

\* ------------------------------------------------------------------ close()

\* What a close() call does for a handle of the given status: nothing without
\* a handle ("noop"); otherwise it calls drain() on the handle, which starts
\* draining an open connection ("draining"), returns at once on a draining one
\* ("drained") and raises on a closed one ("raised").
CloseOutcome(status) ==
    IF status = "none" THEN "noop"
    ELSE IF status = "open" THEN "draining"
    ELSE IF status = "draining" THEN "drained"
    ELSE "raised"

\* close()
Close ==
    /\ out' = Out("close", CloseOutcome(HandleStatus(nc)), 0, 0, << >>)
    /\ conns' = IF CloseOutcome(HandleStatus(nc)) = "draining"
                THEN [conns EXCEPT ![nc] = "draining"] ELSE conns
    /\ UNCHANGED <<nc, js, cpc, okSet, streams, store, consumers, bs, pc, cur,
                   ldur, lconn>>

\* drain() finishes (its subscriptions are removed or its timeout has passed):
\* the transport is released and close() returns.
CloseFinish ==
    /\ nc # 0
    /\ conns[nc] = "draining"
    /\ conns' = [conns EXCEPT ![nc] = "closed"]
    /\ out' = Out("close", "returned", 0, 0, << >>)
    /\ UNCHANGED <<nc, js, cpc, okSet, streams, store, consumers, bs, pc, cur,
                   ldur, lconn>>

\* ---------------------------------------------------------------- publish()

\* Whether some stream of the broker captures the subject.
Captured(subject) ==
    \E s \in streams : \E p \in s.subjects : Matches(p, subject)

\* The envelope publish() builds, as the body the broker stores.
Envelope(subject) == [subject |-> subject, kind |-> "object", origin |-> "publish"]

\* The broker's acknowledgment of the message it stores next: <<seq, stream>>.
BrokerAck == <<Len(store) + 1, StreamName>>

\* The value publish() returns to its caller: None, written << >>.
PublishReturn(ack) == << >>

\* A log record that takes the sequence number of the message before.
PublishLogStale(ack) == <<ack[1] - 1, ack[2]>>

\* The seq and stream fields of the event_published log record.
PublishLog(ack) == <<ack[1], ack[2]>>

\* A publish() that sends its envelope again when no acknowledgment arrives.
PublishRetry ==
    \E subject \in PubSubjects :
      /\ js # 0
      /\ conns[js] # "closed"
      /\ Captured(subject)
      /\ Len(store) + 2 <= MaxPublished
      /\ store' = Append(Append(store, Envelope(subject)), Envelope(subject))
      /\ out' = Out("publish", "Published", 0, Len(store'),
                    <<PublishReturn(BrokerAck), PublishLog(BrokerAck), BrokerAck>>)
      /\ UNCHANGED <<nc, js, conns, cpc, okSet, streams, consumers, bs, pc, cur,
                     ldur, lconn>>

\* publish(subject, data): the guard on self._js, then one js.publish call.
\* The transport refuses on a closed connection; otherwise the request reaches
\* the broker, which stores the message when a stream captures the subject,
\* and the acknowledgment arrives (acked) or does not (the call raises).
Publish ==
    \E subject \in PubSubjects :
      /\ IF js = 0
         THEN /\ out' = Out("publish", "NotConnected", 0, 0, << >>)
              /\ UNCHANGED store
         ELSE IF conns[js] = "closed"
         THEN /\ out' = Out("publish", "Refused", 0, 0, << >>)
              /\ UNCHANGED store
         ELSE \E stored \in BOOLEAN, acked \in BOOLEAN :
              /\ stored => Captured(subject) /\ Len(store) < MaxPublished
              /\ acked => stored
              /\ store' = IF stored THEN Append(store, Envelope(subject)) ELSE store
              /\ out' = IF acked
                        THEN Out("publish", "Published", 0, Len(store'),
                                 <<PublishReturn(BrokerAck), PublishLog(BrokerAck), BrokerAck>>)
                        ELSE Out("publish", "Unconfirmed", 0, 0, << >>)
      /\ UNCHANGED <<nc, js, conns, cpc, okSet, streams, consumers, bs, pc, cur,
                     ldur, lconn>>

\* Another producer puts a body of any kind directly onto the stream.
Inject ==
    \E subject \in InjectSubjects, kind \in BodyKinds :
      /\ Captured(subject)
      /\ Len(store) < MaxInjected
      /\ store' = Append(store, [subject |-> subject, kind |-> kind, origin |-> "inject"])
      /\ out' = Quiet
      /\ UNCHANGED <<nc, js, conns, cpc, okSet, streams, consumers, bs, pc, cur,
                     ldur, lconn>>

\* -------------------------------------------------------------- subscribe()

\* The loop a new subscribe() call runs as.
FreeLoop == CHOOSE l \in Loops : pc[l] = "idle" /\ \A k \in Loops : pc[k] = "idle" => l <= k

\* A durable consumer is bound while a subscription on an open connection holds it.
Bound(d) ==
    \E l \in Loops : pc[l] # "idle" /\ ldur[l] = d /\ conns[lconn[l]] = "open"

\* subscribe(subject, handler, durable_name) up to the start of its loop: the
\* guard on self._js, the durable name, and js.subscribe, which registers the
\* durable consumer or binds to the registered one.  The broker refuses a
\* subject no stream captures, a durable registered with another filter and
\* one that is already bound; the transport refuses once it is draining or
\* closed.
SubscribeWith(args) ==
    /\ \E l \in Loops : pc[l] = "idle"
    /\ LET l == FreeLoop
           subject == args[1]
           d == DurableName(subject, args[2])
       IN IF js = 0
          THEN /\ out' = Out("subscribe", "NotConnected", 0, 0, << >>)
               /\ UNCHANGED <<consumers, pc, ldur, lconn>>
          ELSE IF \/ conns[js] # "open"
                  \/ ~Captured(subject)
                  \/ consumers[d] \notin {{}, {subject}}
                  \/ Bound(d)
          THEN /\ out' = Out("subscribe", "Refused", 0, 0, << >>)
               /\ UNCHANGED <<consumers, pc, ldur, lconn>>
          ELSE /\ consumers' = [consumers EXCEPT ![d] = {subject}]
               /\ pc' = [pc EXCEPT ![l] = "wait"]
               /\ ldur' = [ldur EXCEPT ![l] = d]
               /\ lconn' = [lconn EXCEPT ![l] = js]
               /\ out' = Out("subscribe", "Subscribed", l, 0, << >>)
    /\ UNCHANGED <<nc, js, conns, cpc, okSet, streams, store, bs, cur>>

\* subscribe() up to its durable name, for the arguments of the call: the
\* step records the arguments and the name passed to js.subscribe.
SubscribeName ==
    /\ out.call = "subscribe"
    /\ out.result = "called"
    /\ out' = Out("derive", "returned", 0, 0,
                  <<out.val[1], out.val[2], DurableName(out.val[1], out.val[2])>>)
    /\ UNCHANGED <<nc, js, conns, cpc, okSet, streams, store, consumers, bs, pc,
                   cur, ldur, lconn>>

\* subscribe() with any of the argument pairs.
Subscribe == \E args \in SubscribeArgs : SubscribeWith(args)

\* A message the broker may deliver next to durable d: a stored message the
\* consumer's filter matches, nak'ed, or new with every earlier one delivered.
Deliverable(d, m) ==
    /\ m <= Len(store)
    /\ \E f \in consumers[d] : Matches(f, store[m].subject)
    /\ \/ bs[d][m] = "naked"
       \/ /\ bs[d][m] = "new"
          /\ \A k \in 1..(m - 1) :
               (\E f \in consumers[d] : Matches(f, store[k].subject)) => bs[d][k] # "new"

\* json.loads(msg.data.decode()) and envelope.get: which bodies pass.
Decodes(kind) == kind = "object"

\* msg.data.decode() alone, as the except branch evaluates it for the log record.
DecodesText(kind) == kind # "badutf8"

\* An except branch that acknowledges.
ExceptSignalAck == "ack"

\* What the loop sends for a message whose handler returned, and in the except branch.
SuccessSignal == "ack"
ExceptSignal == "nak"

\* The consumer's state for a message after the signal reaches the broker.
Signalled(signal) == IF signal = "ack" THEN "acked" ELSE "naked"

\* The consumer's state for a message the broker delivers.
Delivered(before) == IF before = "naked" THEN "redelivered" ELSE "delivered"

\* An except branch whose nak reaches the message under every durable name.
ExceptAll(l, m, outcome) ==
    /\ out' = Out("loop", outcome, l, m, << >>)
    /\ cur' = [cur EXCEPT ![l] = 0]
    /\ pc' = [pc EXCEPT ![l] = "wait"]
    /\ bs' = [d \in AllDurables |-> [bs[d] EXCEPT ![m] = Signalled("nak")]]

\* The except branch for message m of loop l, entered with the given outcome
\* of the try block: log the record with the decoded body, then nak.  The
\* decode in the log call raises on bytes that are not UTF-8, and nak raises
\* on a closed transport: either leaves the loop and subscribe().
Except(l, m, outcome) ==
    /\ out' = Out("loop", outcome, l, m, << >>)
    /\ cur' = [cur EXCEPT ![l] = 0]
    /\ IF ~DecodesText(store[m].kind) \/ conns[lconn[l]] = "closed"
       THEN /\ pc' = [pc EXCEPT ![l] = "crashed"]
            /\ bs' = [bs EXCEPT ![ldur[l]][m] = Delivered(bs[ldur[l]][m])]
       ELSE /\ pc' = [pc EXCEPT ![l] = "wait"]
            /\ bs' = [bs EXCEPT ![ldur[l]][m] = Signalled(ExceptSignal)]

\* Loop l takes message m from subscription.messages, decodes it and starts
\* the handler; a body that does not decode goes to the except branch.
ReceiveMsg(l, m) ==
    /\ pc[l] = "wait"
    /\ conns[lconn[l]] = "open"
    /\ Deliverable(ldur[l], m)
    /\ IF Decodes(store[m].kind)
       THEN /\ pc' = [pc EXCEPT ![l] = "handling"]
            /\ cur' = [cur EXCEPT ![l] = m]
            /\ bs' = [bs EXCEPT ![ldur[l]][m] = Delivered(bs[ldur[l]][m])]
            /\ out' = Out("loop", "started", l, m, << >>)
       ELSE Except(l, m, "decode_fail")
    /\ UNCHANGED <<nc, js, conns, cpc, okSet, streams, store, consumers, ldur, lconn>>

\* One iteration of a loop's async for starts.
Receive == \E l \in Loops, m \in Msgs : ReceiveMsg(l, m)

\* The handler returns: msg.ack().  On a closed transport ack raises, which
\* the except branch catches.
HandlerReturn ==
    \E l \in Loops :
      /\ pc[l] = "handling"
      /\ IF conns[lconn[l]] = "closed"
         THEN Except(l, cur[l], "ok")
         ELSE /\ pc' = [pc EXCEPT ![l] = "wait"]
              /\ cur' = [cur EXCEPT ![l] = 0]
              /\ bs' = [bs EXCEPT ![ldur[l]][cur[l]] = Signalled(SuccessSignal)]
              /\ out' = Out("loop", "ok", l, cur[l], << >>)
      /\ UNCHANGED <<nc, js, conns, cpc, okSet, streams, store, consumers, ldur, lconn>>

\* The handler raises: the except branch.
HandlerRaise ==
    \E l \in Loops :
      /\ pc[l] = "handling"
      /\ Except(l, cur[l], "handler_fail")
      /\ UNCHANGED <<nc, js, conns, cpc, okSet, streams, store, consumers, ldur, lconn>>

\* subscription.messages ends once the subscription's connection is draining
\* or closed: the loop is left and subscribe() returns.
LoopEnd ==
    \E l \in Loops :
      /\ pc[l] = "wait"
      /\ conns[lconn[l]] # "open"
      /\ pc' = [pc EXCEPT ![l] = "idle"]
      /\ ldur' = [ldur EXCEPT ![l] = NoDurable]
      /\ lconn' = [lconn EXCEPT ![l] = 0]
      /\ out' = Out("subscribe", "returned", l, 0, << >>)
      /\ UNCHANGED <<nc, js, conns, cpc, okSet, streams, store, consumers, bs, cur>>

\* connect() called on a client that has no connection yet.
ConnectFirst == nc = 0 /\ ConnectOpen

\* Every operation, in any interleaving.
Next ==
    \/ ConnectOpen
    \/ ConnectAddStream
    \/ Close
    \/ CloseFinish
    \/ Publish
    \/ Inject
    \/ Subscribe
    \/ Receive
    \/ HandlerReturn
    \/ HandlerRaise
    \/ LoopEnd

Spec == Init /\ [][Next]_vars

\* The connection lifecycle: any number of connect() and close() calls with
\* publish() calls between them.
NextLife ==
    \/ ConnectOpen
    \/ ConnectAddStream
    \/ Close
    \/ CloseFinish
    \/ Publish

SpecLife == Init /\ [][NextLife]_vars

\* The subscription loops of a client that connects once, fed by other
\* producers.
NextSub ==
    \/ ConnectFirst
    \/ ConnectAddStream
    \/ Close
    \/ CloseFinish
    \/ Inject
    \/ Subscribe
    \/ Receive
    \/ HandlerReturn
    \/ HandlerRaise
    \/ LoopEnd

SpecSub == Init /\ [][NextSub]_vars

\* subscribe() called while no other subscription loop of the client runs.
SubscribeAlone == (\A l \in Loops : pc[l] = "idle") /\ Subscribe

\* One subscription loop at a time, of a client that connects once.
NextOne ==
    \/ ConnectFirst
    \/ ConnectAddStream
    \/ Close
    \/ CloseFinish
    \/ Inject
    \/ SubscribeAlone
    \/ Receive
    \/ HandlerReturn
    \/ HandlerRaise
    \/ LoopEnd

\* That loop under a fair broker and handlers that end: a message that stays
\* or keeps becoming deliverable to a waiting loop is delivered to it, and a
\* started handler returns or raises.
FairSub ==
    /\ Init /\ [][NextOne]_vars
    /\ \A l \in Loops, m \in Msgs : SF_vars(ReceiveMsg(l, m))
    /\ WF_vars(HandlerReturn \/ HandlerRaise)

\* connect() called on a client that has no connection, or whose close() has
\* completed.
ConnectAgain == HandleStatus(nc) \in {"none", "closed"} /\ ConnectOpen

\* subscribe(subject, handler) with the concrete subject and no durable name.
SubscribeCreated == SubscribeWith(<<SubjCreated, {}>>)

\* A client that reconnects after its close() has completed, with its
\* publish() calls and its subscribe() calls for one subject.
NextRe ==
    \/ ConnectAgain
    \/ ConnectAddStream
    \/ Close
    \/ CloseFinish
    \/ Publish
    \/ SubscribeCreated
    \/ Receive
    \/ HandlerReturn
    \/ HandlerRaise
    \/ LoopEnd

SpecRe == Init /\ [][NextRe]_vars

\* publish() from the envelope to the encoded body (the bytes are the text of
\* the JSON value): the step records the subject, the payload and the body.
PublishEncode ==
    /\ out.call = "publish"
    /\ out.result = "called"
    /\ out' = Out("publish", "encoded", 0, 0,
                  <<out.val[1], out.val[2], Dumps(EnvelopeDict(out.val[1], out.val[2]))>>)
    /\ UNCHANGED <<nc, js, conns, cpc, okSet, streams, store, consumers, bs, pc,
                   cur, ldur, lconn>>

\* The loop decodes that body and calls the handler: the step records the
\* subject and payload of the call, the handler's argument and the decoded
\* envelope.
LoopDecode ==
    /\ out.call = "publish"
    /\ out.result = "encoded"
    /\ out' = Out("loop", "decoded", 0, 0,
                  <<out.val[1], out.val[2], HandlerArg(Loads(out.val[3])), Loads(out.val[3])>>)
    /\ UNCHANGED <<nc, js, conns, cpc, okSet, streams, store, consumers, bs, pc,
                   cur, ldur, lconn>>

\* The envelope of one publish() call from its encoding to its decoding.
NextCodec ==
    \/ PublishEncode
    \/ LoopDecode

\* A publish() call with any subject and payload.
InitCodec ==
    /\ nc = 0
    /\ js = 0
    /\ conns = [c \in Conns |-> "unused"]
    /\ cpc = "idle"
    /\ okSet = {}
    /\ streams = {}
    /\ store = << >>
    /\ consumers = [d \in AllDurables |-> {}]
    /\ bs = [d \in AllDurables |-> [m \in Msgs |-> "new"]]
    /\ pc = [l \in Loops |-> "idle"]
    /\ cur = [l \in Loops |-> 0]
    /\ ldur = [l \in Loops |-> NoDurable]
    /\ lconn = [l \in Loops |-> 0]
    /\ \E S \in PubSubjects, P \in Payloads :
         out = Out("publish", "called", 0, 0, <<S, P>>)

SpecCodec == InitCodec /\ [][NextCodec]_vars

\* The durable-name derivation of subscribe() alone, over every subject string.
NextName == SubscribeName

\* A subscribe() call on a new client, with any subject string and with or
\* without a durable name.
InitName ==
    /\ nc = 0
    /\ js = 0
    /\ conns = [c \in Conns |-> "unused"]
    /\ cpc = "idle"
    /\ okSet = {}
    /\ streams = {}
    /\ store = << >>
    /\ consumers = [d \in AllDurables |-> {}]
    /\ bs = [d \in AllDurables |-> [m \in Msgs |-> "new"]]
    /\ pc = [l \in Loops |-> "idle"]
    /\ cur = [l \in Loops |-> 0]
    /\ ldur = [l \in Loops |-> NoDurable]
    /\ lconn = [l \in Loops |-> 0]
    /\ \E s \in Subjects, dn \in {{}} \cup {{d} : d \in ExplicitDurables} :
         out = Out("subscribe", "called", 0, 0, <<s, dn>>)

SpecName == InitName /\ [][NextName]_vars

\* ------------------------------------------------------------------ claims

\* The step just taken ended the processing of a message with this outcome.
Processed(outcome) == out.call = "loop" /\ out.result = outcome

\* A loop that takes messages: in its async for, on an open connection.
ActiveLoop(l) == pc[l] \in {"wait", "handling"} /\ conns[lconn[l]] = "open"

\* C1: whatever the body of a delivered message and whatever the handler does,
\* no exception leaves subscribe(): no loop is ever ended by one.
C1_LoopContainsFailures == \A l \in Loops : pc[l] # "crashed"

\* C2: when the handler reports a failure for a message, the message is
\* negatively acknowledged (not acknowledged) and the loop goes on.
C2_FailureIsNaked ==
    Processed("handler_fail") =>
        /\ bs[ldur[out.loop]][out.msg] = "naked"
        /\ pc[out.loop] = "wait"

\* C3: when the handler completes for a message, the message is positively
\* acknowledged (and not negatively), after the handler has completed.
C3_SuccessIsAcked ==
    Processed("ok") =>
        /\ bs[ldur[out.loop]][out.msg] = "acked"
        /\ pc[out.loop] = "wait"

\* C4: publish() and subscribe() called when no connect() has succeeded (none
\* was called, or each one failed and has ended) fail with the not-connected
\* error.
C4_NotConnectedBeforeConnect ==
    (out.call \in {"publish", "subscribe"} /\ okSet = {} /\ cpc = "idle")
        => out.result = "NotConnected"

\* C5: once close() has been invoked on a connected client (the connection is
\* draining or released), publish() and subscribe() fail at once: nothing reaches the broker and no
\* consumer is registered.
C5_FailsAfterClose ==
    (out.call \in {"publish", "subscribe"} /\ HandleStatus(nc) \in {"draining", "closed"}
                                          /\ cpc = "idle" /\ nc \in okSet)
        => out.result \in {"NotConnected", "Refused"}

\* C6: close() on a client that never connected, or whose earlier close() has
\* completed, does nothing: no drain on the transport, no error.
C6_CloseIsIdempotent ==
    (out.call = "close" /\ out.result # "returned" /\ cpc = "idle"
                        /\ (nc = 0 \/ (nc \in okSet /\ conns[nc] = "closed")))
        => out.result = "noop"

\* C7: when the transport of a connection is released, no handler started by a
\* loop of that connection is still running with its message neither acked
\* nor nak'ed.
C7_NoHandlerAtRelease ==
    \A l \in Loops : pc[l] = "handling" => conns[lconn[l]] # "closed"

\* C8: when the handler reports a failure for message m under durable name d,
\* then m is delivered again to a loop of d, unless no loop of d stays active.
C8_FailedIsRedelivered ==
    \A d \in AllDurables, m \in Msgs :
      (Processed("handler_fail") /\ out.msg = m /\ ldur[out.loop] = d)
        ~> (\/ \E l \in Loops : ldur[l] = d /\ pc[l] = "handling" /\ cur[l] = m
            \/ ~ \E l \in Loops : ldur[l] = d /\ ActiveLoop(l))

\* C8 witness: a message whose handler failed is being handled again.
C8_Witness ==
    \E l \in Loops : /\ pc[l] = "handling"
                     /\ bs[ldur[l]][cur[l]] = "redelivered"
                     /\ ActiveLoop(l)

\* C9: after connect() calls that all succeeded (and no close()), the broker
\* holds the one stream of the configuration and the client has the one open
\* transport connection a single connect() leaves.
C9_ConnectIsIdempotent ==
    (/\ cpc = "idle"
     /\ okSet # {}
     /\ \A c \in Conns : conns[c] # "unused" => c \in okSet /\ conns[c] = "open")
        => streams = {StreamConfig} /\ Cardinality(OpenConns) = 1

\* C10 as claimed: a publish() that succeeds returns the sequence number and
\* the stream of the broker's acknowledgment.
C10_ReturnsSeqAndStream ==
    (out.call = "publish" /\ out.result = "Published") => out.val[1] = out.val[3]

\* C10 as amended: a publish() that succeeds returns nothing (None); the
\* sequence number under which the broker stored the message and the stream
\* name of its acknowledgment are the seq and stream of the event_published
\* log record.
C10_LogsSeqAndStream ==
    (out.call = "publish" /\ out.result = "Published") =>
        /\ out.val[1] = << >>
        /\ out.val[2] = <<out.msg, StreamName>>
        /\ out.val[2] = out.val[3]
        /\ store[out.msg].origin = "publish"

\* C10 witness: the second message of the stream was published and acknowledged.
C10_Witness ==
    out.call = "publish" /\ out.result = "Published" /\ out.msg = 2

\* C11: a step in which the handler of loop l reports a failure changes the
\* delivery state (acked, nak'ed, redelivered) of no message under any other
\* durable name, and changes the position of no other loop.
C11_NoInterference ==
    [][\A l \in Loops :
         (pc[l] = "handling" /\ out' = Out("loop", "handler_fail", l, cur[l], << >>))
           => /\ \A d \in AllDurables \ {ldur[l]} : bs'[d] = bs[d]
              /\ \A k \in Loops \ {l} : pc'[k] = pc[k] /\ cur'[k] = cur[k]]_vars

\* C11 witness: a handler failed for a message while a loop of another durable
\* name is still running its handler on the same message.
C11_Witness ==
    /\ Processed("handler_fail")
    /\ \E k \in Loops \ {out.loop} :
         /\ pc[k] = "handling"
         /\ ldur[k] # ldur[out.loop]
         /\ cur[k] = out.msg
         /\ bs[ldur[k]][out.msg] = "delivered"

\* C12: at most one handler invocation is in progress per durable name.
C12_OneHandlerPerDurable ==
    \A l \in Loops, k \in Loops :
      (l # k /\ pc[l] = "handling" /\ pc[k] = "handling") => ldur[l] # ldur[k]

\* C13: when the body of a delivered message does not deserialize, the handler
\* is not started for it, the message is negatively acknowledged (not
\* acknowledged) and the loop goes on.
C13_DecodeFailureIsNaked ==
    Processed("decode_fail") =>
        /\ bs[ldur[out.loop]][out.msg] = "naked"
        /\ pc[out.loop] = "wait"
        /\ cur[out.loop] = 0

\* C14: no step hands more than one envelope to the broker (publish() does
\* not send again, whether or not the acknowledgment arrives), and a
\* publish() returns normally only in the step in which the broker stored its
\* envelope and acknowledged it.
C14_PublishSendsOnce ==
    [][/\ Len(store') <= Len(store) + 1
       /\ SubSeq(store', 1, Len(store)) = store
       /\ (out'.call = "publish" /\ out'.result = "Published") =>
             /\ store' = Append(store, store'[Len(store')])
             /\ store'[Len(store')].origin = "publish"
             /\ out'.msg = Len(store')]_vars

\* C14 witness: a publish() whose acknowledgment did not arrive has ended
\* with the broker holding its envelope, once.
C14_Witness ==
    out.call = "publish" /\ out.result = "Unconfirmed" /\ Len(store) = 1

RECURSIVE EachChar(_)
\* The string with every "." turned into "-" and every ">" into "all", one
\* character at a time.
EachChar(s) ==
    IF s = << >> THEN << >>
    ELSE (CASE Head(s) = "." -> <<"-">>
            [] Head(s) = ">" -> <<"a", "l", "l">>
            [] OTHER -> <<Head(s)>>) \o EachChar(Tail(s))

Subscribable(s) == IsPattern(s) /\ \E p \in StreamSubjects : Matches(p, s)

\* C19: the name derived for a subject pattern is derived for no other
\* subject pattern.
C19_DerivationInjective ==
    (out.call = "derive" /\ out.val[2] = {} /\ Subscribable(out.val[1])) =>
        \A t \in Subjects :
          (Subscribable(t) /\ t # out.val[1]) => DurableName(t, {}) # out.val[3]

\* A concrete subject: not empty, and without a wildcard character.
Concrete(s) == s # << >> /\ \A i \in 1..Len(s) : s[i] \notin {">", "*"}

\* C17: every envelope the broker holds from a publish() call has a concrete
\* subject: publish() hands over none with an empty subject or a wildcard.
C17_OnlyConcreteSubjects ==
    \A m \in 1..Len(store) :
      store[m].origin = "publish" => Concrete(store[m].subject)

\* A payload of JSON values only: no tuple in it.
JsonPayload(P) == \A k \in DOMAIN P : P[k].t # "tuple"

\* C16 as claimed: for every payload P and subject S, the handler's argument
\* is exactly P and the decoded envelope carries subject S.
C16_RoundTrip ==
    (out.call = "loop" /\ out.result = "decoded") =>
        /\ out.val[3] = Dict(out.val[2])
        /\ out.val[4].v["subject"] = Str(out.val[1])

\* C16 as amended: for every payload P whose values are JSON values (strings,
\* numbers, lists, but no tuples) and every subject S, the handler's argument
\* is exactly P and the decoded envelope carries subject S, whichever keys P
\* has; for every payload, the decoded envelope carries subject S and the
\* handler's argument has the keys of P.
C16_RoundTripJson ==
    (out.call = "loop" /\ out.result = "decoded") =>
        /\ JsonPayload(out.val[2]) => out.val[3] = Dict(out.val[2])
        /\ out.val[3].t = "dict"
        /\ DOMAIN out.val[3].v = DOMAIN out.val[2]
        /\ out.val[4].v["subject"] = Str(out.val[1])

\* C16 witness: a payload with the keys data and subject, an int and a list
\* as values, came back unchanged.
C16_Witness ==
    /\ out.call = "loop"
    /\ out.result = "decoded"
    /\ DOMAIN out.val[2] = {"data", "subject"}
    /\ out.val[2]["data"].t = "int"
    /\ out.val[2]["subject"].t = "list"
    /\ out.val[3] = Dict(out.val[2])

\* C18: when a close() has completed, with no connect() or close() call in
\* progress, every transport connection a connect() call opened is released:
\* none is left open.
C18_NoConnectionLeft ==
    (/\ out.call = "close"
     /\ out.result = "returned"
     /\ cpc = "idle"
     /\ \A c \in Conns : conns[c] # "draining")
        => \A c \in Conns : conns[c] \in {"unused", "closed"}

====
